---- MODULE Spec2Model ----
(***************************************************************************)
(* A model of astrobase's SkyView stamp fetcher                            *)
(* (astrobase/services/skyview.py, get_stamp) and of its random-forest     *)
(* classification pipeline (astrobase/varclass/rfclass.py:                 *)
(* collect_features, train_rf_classifier, apply_rf_classifier).            *)
(*                                                                         *)
(* Spec    get_stamp calls made one at a time against a SkyView server     *)
(*         whose answers (status, result links, file bodies) are free.     *)
(* SpecRF  collect_features called on directories of varfeatures pickles   *)
(*         and with arguments drawn from bounded sets.                     *)
(* SpecCls the pipeline: collect a labelled training set, train on it,     *)
(*         apply the trained classifier to a second directory.             *)
(* SpecConc two get_stamp callers on one cache key, steps interleaved.     *)
(* SpecOnce one get_stamp call on a cache an earlier call has populated.   *)
(***************************************************************************)
EXTENDS Integers, Sequences, FiniteSets, TLC

VARIABLES
    cache,        \* stamp-cache directory: cache file name -> file state
    pc,           \* per caller: where its get_stamp call stands
    args,         \* per caller: the arguments of its current/last call
    provenance,   \* per caller: 'cache' or 'new download'
    fitsurls,     \* per caller: FITS URLs of the query response still to fetch
    content,      \* per caller: fitsreq.content of the last download
    netlog,       \* per caller: the network requests the call issued, in order
    ret,          \* per caller: what the call returned or raised
    populated,    \* the last call that fetched a stamp and returned it
    later,        \* per caller: the call repeats `populated` with forcefetch=False
    rfpc,         \* pipeline position: start, collected, trained, applied
    disk,         \* pickles on disk: path -> content
    cfcall,       \* arguments of the last collect_features call
    fc,           \* outcome of the last collect_features call
    trcall,       \* arguments of the last train_rf_classifier call
    bundle,       \* outcome of the last train_rf_classifier call
    apcall,       \* arguments of the last apply_rf_classifier call
    pred          \* outcome of the last apply_rf_classifier call

stampvars == <<cache, pc, args, provenance, fitsurls, content, netlog, ret,
               populated, later>>
rfvars == <<rfpc, disk, cfcall, fc, trcall, bundle, apcall, pred>>
vars == <<stampvars, rfvars>>

(***************************************************************************)
(* Bounds of the model.                                                    *)
(***************************************************************************)
\* most result-file links one query response carries
MaxUrls == 2
\* most varfeatures pickles in one features directory
MaxFiles == 2

(***************************************************************************)
(* get_stamp: values                                                       *)
(***************************************************************************)
Procs == {1, 2}

\* coordinates in units of 1e-5 degrees, so that '%.4f' has something to round
Coords == {4, 10}
Surveys == {"DSS2 Red"}
Scalings == {"Linear"}

\* an image frame is a column of pixel rows; flipud reverses the row order
FitsA == [fits |-> TRUE, header |-> "wcsA", data |-> <<1, 2>>]
FitsB == [fits |-> TRUE, header |-> "wcsB", data |-> <<2, 1>>]
ErrPage == [fits |-> FALSE, header |-> "", data |-> <<>>]
Bodies == {FitsA, FitsB, ErrPage}

\* convolution kernels (weights summing to 1); NoKernel is convolvewith=None
NoKernel == <<>>
ShiftKernel == <<0, 0, 1>>
Kernels == {NoKernel, ShiftKernel}

StampArgs == [ra : Coords, decl : {0}, survey : Surveys, scaling : Scalings,
              flip : BOOLEAN, convolvewith : Kernels, forcefetch : BOOLEAN,
              savewcsheader : BOOLEAN]

\* '%.4f' % x for x >= 0 given in units of 1e-5: the value in units of 1e-4
Fmt4(x) == (x + 5) \div 10

\* formposition = ['%.4f, %.4f' % (ra, decl)]
FormPosition(ra, decl) == <<Fmt4(ra), Fmt4(decl)>>

\* cachekey = sha256('%s-%s-%s' % (formposition[0], survey, scaling)); the
\* digest is taken as injective, so the hashed string stands for the file name
CacheFname(a) == <<FormPosition(a.ra, a.decl), a.survey, a.scaling>>

CacheFnames == {CacheFname(a) : a \in StampArgs}

NoFile == [exists |-> FALSE, gz |-> <<>>]
\* gzip.open(cachefname, 'wb'): the file exists and is empty until written
Truncated == [exists |-> TRUE, gz |-> <<>>]
\* outfd.write(content) and close: the file holds the compressed content
GzippedNothing(body) == Truncated
Gzipped(body) == [exists |-> TRUE, gz |-> <<body>>]

NoRet == [kind |-> "pending", frame |-> <<>>, header |-> ""]
Raised == [kind |-> "raise", frame |-> <<>>, header |-> ""]
RetNone == [kind |-> "None", frame |-> <<>>, header |-> ""]

NoPopulated == [valid |-> FALSE, args |-> CHOOSE a \in StampArgs : TRUE,
                ret |-> NoRet]

(***************************************************************************)
(* get_stamp: pure steps                                                   *)
(***************************************************************************)
\* if forcefetch or (not os.path.exists(cachefname)):
NeedsFetchAlways(forcefetch, file) == TRUE
NeedsFetch(forcefetch, file) == forcefetch \/ ~file.exists

\* `if fitsurls: ... else: return None`
AfterQueryNoCheck(urls) == "download"
AfterQuery(urls) == IF urls # <<>> THEN "download" ELSE "return_none"

\* `for fitsurl in fitsurls:` goes on with the URLs after the current one
RemainingUrls(urls) == Tail(urls)

\* np.flipud(frame)
Flipud(frame) == [i \in 1..Len(frame) |-> frame[Len(frame) + 1 - i]]

\* pixel i of a frame, zero outside it (boundary='fill', fill_value=0)
Px(frame, i) == IF i \in 1..Len(frame) THEN frame[i] ELSE 0

RECURSIVE KernelSum(_, _)
KernelSum(kernel, n) ==
    IF n = 0 THEN 0 ELSE kernel[n] + KernelSum(kernel, n - 1)

RECURSIVE ConvAt(_, _, _, _)
ConvAt(frame, kernel, i, n) ==
    IF n = 0 THEN 0
    ELSE kernel[n] * Px(frame, i + ((Len(kernel) + 1) \div 2) - n)
         + ConvAt(frame, kernel, i, n - 1)

\* aconv.convolve(frame, kernel), kernel normalised by its sum
Convolve(frame, kernel) ==
    [i \in 1..Len(frame) |->
        ConvAt(frame, kernel, i, Len(kernel))
            \div KernelSum(kernel, Len(kernel))]

\* pyfits.open(cachefname) succeeds on a file holding a gzipped FITS body
Readable(file) == file.exists /\ file.gz # <<>> /\ file.gz[1].fits

\* lines 245-246: the frame after the optional flip
Processed(body, a) == IF a.flip THEN Flipud(body.data) ELSE body.data

\* lines 252-263: `convolved` is computed and dropped; both branches return
\* frame, with the header when savewcsheader is set
Returned(body, a) ==
    LET frame == Processed(body, a)
        convolved == IF a.convolvewith # NoKernel
                     THEN Convolve(frame, a.convolvewith) ELSE frame
    IN  IF a.savewcsheader
        THEN [kind |-> "frame_header", frame |-> frame, header |-> body.header]
        ELSE [kind |-> "frame", frame |-> frame, header |-> ""]

NetEntry(req, status, body) == [req |-> req, status |-> status, body |-> body]

(***************************************************************************)
(* get_stamp: the steps of one call by caller p                            *)
(***************************************************************************)
\* a variant that joins a fetch of the same cache file already in progress
CallDeduplicated(p, a) ==
    /\ pc[p] = "idle"
    /\ args' = [args EXCEPT ![p] = a]
    /\ LET inflight == \E q \in DOMAIN pc :
                          /\ q # p
                          /\ pc[q] \in {"query", "download", "open", "write"}
                          /\ CacheFname(args[q]) = CacheFname(a)
           fetch == NeedsFetch(a.forcefetch, cache[CacheFname(a)]) /\ ~inflight
       IN  /\ provenance' = [provenance EXCEPT
                               ![p] = IF fetch THEN "new download" ELSE "cache"]
           /\ pc' = [pc EXCEPT ![p] = IF fetch THEN "query" ELSE "load"]
    /\ fitsurls' = [fitsurls EXCEPT ![p] = <<>>]
    /\ content' = [content EXCEPT ![p] = ErrPage]
    /\ netlog' = [netlog EXCEPT ![p] = <<>>]
    /\ ret' = [ret EXCEPT ![p] = NoRet]
    /\ later' = [later EXCEPT ![p] = /\ populated.valid
                                     /\ ~a.forcefetch
                                     /\ a = populated.args]
    /\ UNCHANGED <<cache, populated>>

\* lines 153-177: build the form, name the cache file, decide on a fetch
Call(p, a) ==
    /\ pc[p] = "idle"
    /\ args' = [args EXCEPT ![p] = a]
    /\ LET fetch == NeedsFetch(a.forcefetch, cache[CacheFname(a)])
       IN  /\ provenance' = [provenance EXCEPT
                               ![p] = IF fetch THEN "new download" ELSE "cache"]
           /\ pc' = [pc EXCEPT ![p] = IF fetch THEN "query" ELSE "load"]
    /\ fitsurls' = [fitsurls EXCEPT ![p] = <<>>]
    /\ content' = [content EXCEPT ![p] = ErrPage]
    /\ netlog' = [netlog EXCEPT ![p] = <<>>]
    /\ ret' = [ret EXCEPT ![p] = NoRet]
    /\ later' = [later EXCEPT ![p] = /\ populated.valid
                                     /\ ~a.forcefetch
                                     /\ a = populated.args]
    /\ UNCHANGED <<cache, populated>>

\* lines 188-189, 218-232: the query fails (HTTP error status or timeout)
QueryFails(p) ==
    /\ pc[p] = "query"
    /\ \E status \in {"error", "timeout"} :
          netlog' = [netlog EXCEPT
                       ![p] = Append(@, NetEntry("query", status, ErrPage))]
    /\ ret' = [ret EXCEPT ![p] = Raised]
    /\ pc' = [pc EXCEPT ![p] = "idle"]
    /\ UNCHANGED <<cache, args, provenance, fitsurls, content, populated, later>>

\* lines 188-199, 213-216: the query succeeds; its text holds n FITS URLs
QueryOk(p) ==
    /\ pc[p] = "query"
    /\ netlog' = [netlog EXCEPT
                    ![p] = Append(@, NetEntry("query", "ok", ErrPage))]
    /\ \E n \in 0..MaxUrls :
          LET urls == [i \in 1..n |-> i]
          IN  IF AfterQuery(urls) = "download"
              THEN /\ fitsurls' = [fitsurls EXCEPT ![p] = urls]
                   /\ pc' = [pc EXCEPT ![p] = IF urls # <<>> THEN "download"
                                              ELSE "load"]
                   /\ ret' = ret
              ELSE /\ fitsurls' = fitsurls
                   /\ pc' = [pc EXCEPT ![p] = "idle"]
                   /\ ret' = [ret EXCEPT ![p] = RetNone]
    /\ UNCHANGED <<cache, args, provenance, content, populated, later>>

\* line 208, 223-227: the download of the current URL times out
FetchTimeout(p) ==
    /\ pc[p] = "download"
    /\ netlog' = [netlog EXCEPT
                    ![p] = Append(@, NetEntry("fits", "timeout", ErrPage))]
    /\ ret' = [ret EXCEPT ![p] = Raised]
    /\ pc' = [pc EXCEPT ![p] = "idle"]
    /\ UNCHANGED <<cache, args, provenance, fitsurls, content, populated, later>>

\* line 208: the download answers, with any status; the status is not looked at
FetchFits(p) ==
    /\ pc[p] = "download"
    /\ \E status \in {"ok", "error"}, body \in Bodies :
          /\ netlog' = [netlog EXCEPT
                          ![p] = Append(@, NetEntry("fits", status, body))]
          /\ content' = [content EXCEPT ![p] = body]
    /\ pc' = [pc EXCEPT ![p] = "open"]
    /\ UNCHANGED <<cache, args, provenance, fitsurls, ret, populated, later>>

\* a write to cache file f makes `populated` stale when it is about f
Stale(f) ==
    IF populated.valid /\ CacheFname(populated.args) = f
    THEN NoPopulated ELSE populated

\* line 210: gzip.open(cachefname, 'wb')
OpenCache(p) ==
    /\ pc[p] = "open"
    /\ cache' = [cache EXCEPT ![CacheFname(args[p])] = Truncated]
    /\ populated' = Stale(CacheFname(args[p]))
    /\ pc' = [pc EXCEPT ![p] = "write"]
    /\ UNCHANGED <<args, provenance, fitsurls, content, netlog, ret, later>>

\* line 211 and the end of the with block, then the next turn of the loop
WriteCache(p) ==
    /\ pc[p] = "write"
    /\ cache' = [cache EXCEPT ![CacheFname(args[p])] = Gzipped(content[p])]
    /\ populated' = Stale(CacheFname(args[p]))
    /\ LET rest == RemainingUrls(fitsurls[p])
       IN  /\ fitsurls' = [fitsurls EXCEPT ![p] = rest]
           /\ pc' = [pc EXCEPT ![p] = IF rest # <<>> THEN "download" ELSE "load"]
    /\ UNCHANGED <<args, provenance, content, netlog, ret, later>>

\* lines 239-263: open the cache file, flip, convolve, return
OpenFrame(p) ==
    /\ pc[p] = "load"
    /\ LET file == cache[CacheFname(args[p])]
       IN  IF Readable(file)
           THEN LET r == Returned(file.gz[1], args[p])
                IN  /\ ret' = [ret EXCEPT ![p] = r]
                    /\ populated' =
                         IF provenance[p] = "new download"
                         THEN [valid |-> TRUE,
                               args |-> [args[p] EXCEPT !.forcefetch = FALSE],
                               ret |-> r]
                         ELSE populated
           ELSE /\ ret' = [ret EXCEPT ![p] = Raised]
                /\ populated' = populated
    /\ pc' = [pc EXCEPT ![p] = "idle"]
    /\ UNCHANGED <<cache, args, provenance, fitsurls, content, netlog, later>>

\* a caller starts a call while no call is in progress
SerialCall(p) ==
    /\ \A q \in Procs : pc[q] = "idle"
    /\ \E a \in StampArgs : Call(p, a)

\* the calls two concurrent callers make: the same position, hence the same
\* cache file, with and without forcefetch
ConcArgs == {a \in StampArgs : /\ a.ra = 4 /\ ~a.flip /\ a.savewcsheader
                               /\ a.convolvewith = NoKernel}

\* a caller starts a call whatever the other callers are doing
ConcCall(p) == \E a \in ConcArgs : Call(p, a)

\* a download answered by a server in good order: status 200, a FITS body
ConcFetchFits(p) ==
    /\ FetchFits(p)
    /\ content'[p].fits
    /\ netlog'[p][Len(netlog'[p])].status = "ok"

(***************************************************************************)
(* rfclass: values                                                         *)
(***************************************************************************)
NONPERIODIC_FEATURES_TO_COLLECT ==
    << "stetsonj", "stetsonk", "amplitude", "magnitude_ratio",
       "linear_fit_slope", "eta_normal",
       "percentile_difference_flux_percentile", "mad", "skew", "kurtosis",
       "mag_iqr", "beyond1std", "grcolor", "gicolor", "ricolor", "bvcolor",
       "jhcolor", "jkcolor", "hkcolor", "gkcolor", "propermotion" >>

Range(seq) == {seq[i] : i \in 1..Len(seq)}
SeqsUpTo(S, n) == UNION {[1..k -> S] : k \in 0..n}
Min(a, b) == IF a < b THEN a ELSE b

AllFeatureNames == Range(NONPERIODIC_FEATURES_TO_COLLECT)
FeatIdx(f) == CHOOSE i \in 1..Len(NONPERIODIC_FEATURES_TO_COLLECT) :
                  NONPERIODIC_FEATURES_TO_COLLECT[i] = f

\* the features the varfeatures pickles of the model may hold
Exposable == {"stetsonj", "stetsonk"}
ObjectIds == {"obj1", "obj2"}
Globs == {"varfeatures-*.pkl", "periodic-*.pkl"}
MagCol == "aep_000"

\* a varfeatures pickle: an object identifier and, under the magcol, some
\* features; a features directory: files whose names match one glob
PklFiles == [objectid : ObjectIds, feats : (SUBSET Exposable) \ {{}}]
FeatureDirs == [glob : Globs, files : SeqsUpTo(PklFiles, MaxFiles)]

\* featurestouse as callers pass it: no name twice; empty selects the default
FeatureLists ==
    { <<>>, <<"stetsonj">>, <<"stetsonk">>, <<"stetsonj", "stetsonk">>,
      <<"stetsonk", "stetsonj">> }

\* maxobjects: 0 stands for None
MaxObjectsArgs == {0, 1}

\* labeldict: None, or a dict from object identifiers to labels
NoLabelDict == [isdict |-> FALSE, keys |-> {}, val |-> [o \in ObjectIds |-> 0]]
BoolLabels == [isdict |-> TRUE, keys |-> ObjectIds,
               val |-> [o \in ObjectIds |-> IF o = "obj1" THEN 1 ELSE 0]]
ClassLabels == [isdict |-> TRUE, keys |-> {"obj1"},
                val |-> [o \in ObjectIds |-> IF o = "obj1" THEN 2 ELSE 0]]
LabelDicts == {NoLabelDict, BoolLabels, ClassLabels}
LabelTypes == {"binary", "classes"}

\* pickle.load of the i-th file of a listing: the value of a feature tells
\* which file and which feature it was read from
Varf(pklist, i) ==
    [objectid |-> pklist[i].objectid,
     thisfeatures |-> [f \in pklist[i].feats |-> 10 * i + FeatIdx(f)]]

(***************************************************************************)
(* collect_features                                                        *)
(***************************************************************************)
\* glob.glob(os.path.join(featuresdir, pklglob))
GlobFiles(featuresdir, pklglob) ==
    IF featuresdir.glob = pklglob THEN featuresdir.files ELSE <<>>

\* lines 241-242: if maxobjects: pklist = pklist[:maxobjects]
Truncate(pklist, maxobjects) ==
    IF maxobjects # 0 THEN SubSeq(pklist, 1, Min(maxobjects, Len(pklist)))
    ELSE pklist

\* lines 269-272
FeaturesToGetDefault(featurestouse) == NONPERIODIC_FEATURES_TO_COLLECT
FeaturesToGet(featurestouse) ==
    IF Len(featurestouse) > 0 THEN featurestouse
    ELSE NONPERIODIC_FEATURES_TO_COLLECT

\* the entries of seq at the positions in K, in the order of seq
Pick(seq, K) ==
    [n \in 1..Cardinality(K) |->
        seq[CHOOSE k \in K : Cardinality({m \in K : m < k}) = n - 1]]

\* lines 275-288, the loop over featurestoget for one pickle: a requested
\* feature the pickle holds is registered as available where the loop first
\* meets it, and its value is appended once per turn of the loop that names it
GetFeatures(fd, thisfeatures, featurestoget) ==
    LET turns == 1..Len(featurestoget)
        held == {k \in turns : featurestoget[k] \in DOMAIN thisfeatures}
        firstseen == {k \in held :
                        /\ featurestoget[k] \notin Range(fd.availablefeatures)
                        /\ \A m \in 1..(k - 1) :
                              featurestoget[m] # featurestoget[k]}
        appended(f) == [n \in 1..Cardinality({k \in held :
                                                featurestoget[k] = f}) |->
                           thisfeatures[f]]
    IN  [objectids |-> fd.objectids,
         availablefeatures |->
            fd.availablefeatures \o Pick(featurestoget, firstseen),
         cols |-> [f \in AllFeatureNames |->
                     IF f \in DOMAIN thisfeatures
                     THEN fd.cols[f] \o appended(f)
                     ELSE fd.cols[f]]]

\* lines 257-288: the pickles of the listing, from the i-th on
RECURSIVE CollectLoop(_, _, _, _)
CollectLoop(fd, pklist, featurestouse, i) ==
    IF i > Len(pklist) THEN fd
    ELSE LET varf == Varf(pklist, i)
             fd1 == IF varf.objectid \notin Range(fd.objectids)
                    THEN [fd EXCEPT !.objectids = Append(@, varf.objectid)]
                    ELSE fd
             fd2 == GetFeatures(fd1, varf.thisfeatures,
                                FeaturesToGet(featurestouse))
         IN  CollectLoop(fd2, pklist, featurestouse, i + 1)

\* np.column_stack raises on no column and on columns of unequal length
StackRaises(columns) ==
    \/ columns = <<>>
    \/ \E i, j \in 1..Len(columns) : Len(columns[i]) # Len(columns[j])

\* np.column_stack(columns): row r holds entry r of every column
ColumnStack(columns) ==
    [r \in 1..Len(columns[1]) |-> [c \in 1..Len(columns) |-> columns[c][r]]]

\* lines 304-324
LabelArrayOnes(objectids, labeldict, labeltype) ==
    [ind \in 1..Len(objectids) |->
        IF objectids[ind] \in labeldict.keys THEN 1 ELSE 0]
LabelArray(objectids, labeldict, labeltype) ==
    [ind \in 1..Len(objectids) |->
        IF objectids[ind] \in labeldict.keys
        THEN IF labeltype = "binary"
             THEN IF labeldict.val[objectids[ind]] # 0 THEN 1 ELSE 0
             ELSE IF labeltype = "classes"
                  THEN labeldict.val[objectids[ind]]
                  ELSE 0
        ELSE 0]

NoKwargs == [pklglob |-> "", featurestouse |-> <<>>, maxobjects |-> 0,
             labeltype |-> ""]

NoFeatureDict ==
    [objectids |-> <<>>, magcol |-> "", availablefeatures |-> <<>>,
     features_array |-> <<>>, haslabels |-> FALSE, labels_array |-> <<>>,
     kwargs |-> NoKwargs]

CfArgs(featuresdir, magcol, outfile, pklglob, featurestouse, maxobjects, labeldict, labeltype) ==
    [featuresdir |-> featuresdir, magcol |-> magcol, outfile |-> outfile,
     pklglob |-> pklglob, featurestouse |-> featurestouse,
     maxobjects |-> maxobjects, labeldict |-> labeldict,
     labeltype |-> labeltype]

\* lines 239-337: the call either raises or returns the feature dict
CollectFeatures(c) ==
    LET pklist == Truncate(GlobFiles(c.featuresdir, c.pklglob), c.maxobjects)
        fd0 == [objectids |-> <<>>, availablefeatures |-> <<>>,
                cols |-> [f \in AllFeatureNames |-> <<>>]]
        fd == CollectLoop(fd0, pklist, c.featurestouse, 1)
        columns == [j \in 1..Len(fd.availablefeatures) |->
                       fd.cols[fd.availablefeatures[j]]]
    IN  IF StackRaises(columns)
        THEN [status |-> "raised", dict |-> NoFeatureDict]
        ELSE [status |-> "ok",
              dict |->
                [objectids |-> fd.objectids,
                 magcol |-> c.magcol,
                 availablefeatures |-> fd.availablefeatures,
                 features_array |-> ColumnStack(columns),
                 haslabels |-> c.labeldict.isdict,
                 labels_array |->
                    IF c.labeldict.isdict
                    THEN LabelArray(fd.objectids, c.labeldict, c.labeltype)
                    ELSE <<>>,
                 kwargs |-> [pklglob |-> c.pklglob,
                             featurestouse |-> c.featurestouse,
                             maxobjects |-> c.maxobjects,
                             labeltype |-> c.labeltype]]]

(***************************************************************************)
(* pickles on disk                                                         *)
(***************************************************************************)
Paths == {"collected.pkl", "classifier.pkl", "prediction.pkl",
          "actual-collected-features.pkl", "corrupt.pkl", "missing.pkl"}

Absent == [exists |-> FALSE, kind |-> "none", pickle |-> <<>>]
\* a file that exists and that pickle.load cannot read
Corrupt == [exists |-> TRUE, kind |-> "junk", pickle |-> <<>>]
\* pickle.dump(value, outfd): kind names the dict that was dumped
Pickled(kind, value) == [exists |-> TRUE, kind |-> kind, pickle |-> <<value>>]

NoCfCall == CfArgs([glob |-> "", files |-> <<>>], "", "", "", <<>>, 0,
                   NoLabelDict, "")
NoFc == [status |-> "none", dict |-> NoFeatureDict]

\* collect_features called with c: the outcome, and the pickle it writes
CollectCall(c) ==
    /\ cfcall' = c
    /\ fc' = CollectFeatures(c)
    /\ disk' = IF CollectFeatures(c).status = "ok"
               THEN [disk EXCEPT ![c.outfile] =
                        Pickled("features", CollectFeatures(c).dict)]
               ELSE disk

\* a caller collects features from some directory
Collect ==
    /\ rfpc = "start"
    /\ \E featuresdir \in FeatureDirs, pklglob \in Globs,
          featurestouse \in FeatureLists, maxobjects \in MaxObjectsArgs,
          labeldict \in LabelDicts, labeltype \in LabelTypes :
          CollectCall(CfArgs(featuresdir, MagCol, "collected.pkl", pklglob,
                             featurestouse, maxobjects, labeldict, labeltype))
    /\ rfpc' = "collected"
    /\ UNCHANGED <<trcall, bundle, apcall, pred>>

(***************************************************************************)
(* train_rf_classifier and apply_rf_classifier                             *)
(***************************************************************************)
\* the collected_features / classifier argument: a string (taken as a path),
\* the dict the previous stage returned, or a value of another type
DictArg == [type |-> "dict", path |-> ""]
OtherArg == [type |-> "other", path |-> ""]
PathArg(path) == [type |-> "str", path |-> path]

\* lines 375-382 and 506-513: load the path, take the dict, or give up
ResolveNoExistsCheck(arg, mem) ==
    IF arg.type = "str"
    THEN IF disk[arg.path].exists /\ disk[arg.path].kind # "junk"
         THEN [status |-> "ok", kind |-> disk[arg.path].kind,
               dict |-> disk[arg.path].pickle[1]]
         ELSE [status |-> "raised", kind |-> "", dict |-> <<>>]
    ELSE IF arg.type = "dict"
         THEN [status |-> "ok", kind |-> mem.kind, dict |-> mem.dict]
         ELSE [status |-> "none", kind |-> "", dict |-> <<>>]
Resolve(arg, mem) ==
    IF arg.type = "str" /\ disk[arg.path].exists
    THEN IF disk[arg.path].kind = "junk"
         THEN [status |-> "raised", kind |-> "", dict |-> <<>>]
         ELSE [status |-> "ok", kind |-> disk[arg.path].kind,
               dict |-> disk[arg.path].pickle[1]]
    ELSE IF arg.type = "dict"
         THEN [status |-> "ok", kind |-> mem.kind, dict |-> mem.dict]
         ELSE [status |-> "none", kind |-> "", dict |-> <<>>]

NoClassifier == [n_features |-> 0]
NoBundleDict == [feature_names |-> <<>>, magcol |-> "",
                 collect_kwargs |-> NoKwargs, best_classifier |-> NoClassifier]
NoBundle == [status |-> "pending", dict |-> NoBundleDict]
NoTrCall == [collected_features |-> OtherArg, classifier_to_pickle |-> ""]

\* lines 384-385: the keys train_rf_classifier reads from fdict
TrainKeyError(r) == r.kind # "features" \/ ~r.dict.haslabels

\* lines 393-401: train_test_split refuses arrays of different lengths
SplitRaises(fdict) == Len(fdict.features_array) # Len(fdict.labels_array)

\* lines 453-474, the entries of outdict that apply_rf_classifier reads; the
\* fitted forest is known by the number of features it was fitted on
TrainedBundle(fdict) ==
    [feature_names |-> fdict.availablefeatures,
     magcol |-> fdict.magcol,
     collect_kwargs |-> fdict.kwargs,
     best_classifier |->
        [n_features |-> Len(fdict.features_array[1])]]

\* train_rf_classifier(collected_features, classifier_to_pickle=...); fits
\* says whether the split, the search and the scoring go through
Train ==
    /\ rfpc = "collected"
    /\ \E arg \in {DictArg, OtherArg, PathArg("collected.pkl"),
                   PathArg("corrupt.pkl"), PathArg("missing.pkl")},
          classifier_to_pickle \in {"", "classifier.pkl"},
          fits \in BOOLEAN :
          /\ arg = DictArg => fc.status = "ok"
          /\ trcall' = [collected_features |-> arg,
                        classifier_to_pickle |-> classifier_to_pickle]
          /\ LET r == Resolve(arg, [kind |-> "features", dict |-> fc.dict])
             IN  IF r.status # "ok"
                 THEN /\ bundle' = [status |-> r.status, dict |-> NoBundleDict]
                      /\ disk' = disk
                 ELSE IF TrainKeyError(r) \/ SplitRaises(r.dict) \/ ~fits
                 THEN /\ bundle' = [status |-> "raised", dict |-> NoBundleDict]
                      /\ disk' = disk
                 ELSE /\ bundle' = [status |-> "ok",
                                    dict |-> TrainedBundle(r.dict)]
                      /\ disk' = IF classifier_to_pickle # ""
                                 THEN [disk EXCEPT ![classifier_to_pickle] =
                                          Pickled("classifier",
                                                  TrainedBundle(r.dict))]
                                 ELSE disk
    /\ rfpc' = "trained"
    /\ UNCHANGED <<cfcall, fc, apcall, pred>>

NoPredDict == [features |-> NoFeatureDict, featfile |-> "",
               predicted_labels |-> <<>>, predicted_label_probs |-> <<>>]
NoPred == [status |-> "pending", dict |-> NoPredDict]
NoApCall == [classifier |-> OtherArg,
             varfeaturesdir |-> [glob |-> "", files |-> <<>>],
             outpickle |-> "", maxobjects |-> 0]

\* os.path.join(os.path.dirname(outpickle), 'actual-collected-features.pkl')
FeatFile(outpickle) == "actual-collected-features.pkl"

\* bestclf.predict / predict_proba: the forest refuses a matrix whose width
\* is not the one it was fitted on
PredictRaises(clf, X) == \E r \in 1..Len(X) : Len(X[r]) # clf.n_features
Predict(clf, X) == [r \in 1..Len(X) |-> X[r][1] % 2]
PredictProba(clf, X) ==
    [r \in 1..Len(X) |-> <<1 - (X[r][1] % 2), X[r][1] % 2>>]

\* lines 525-545: the collect_features call apply_rf_classifier makes
ApplyCollectArgs(clfdict, varfeaturesdir, outpickle, maxobjects) ==
    CfArgs(varfeaturesdir, clfdict.magcol, FeatFile(outpickle),
           clfdict.collect_kwargs.pklglob, clfdict.feature_names, maxobjects,
           NoLabelDict, "binary")

\* the classifier argument names a trained bundle
Usable(arg) ==
    \/ arg = DictArg /\ bundle.status = "ok"
    \/ arg.type = "str" /\ disk[arg.path].kind = "classifier"

\* the directories of the first, labelled collection of the pipeline
TrainingFiles ==
    << [objectid |-> "obj1", feats |-> Exposable],
       [objectid |-> "obj2", feats |-> Exposable] >>
TrainingDirs == {[glob |-> g, files |-> TrainingFiles] : g \in Globs}

\* apply_rf_classifier(classifier, varfeaturesdir, outpickle, maxobjects)
Apply ==
    /\ rfpc = "trained"
    /\ \E arg \in {DictArg, OtherArg, PathArg("classifier.pkl"),
                   PathArg("collected.pkl"), PathArg("corrupt.pkl"),
                   PathArg("missing.pkl")},
          maxobjects \in MaxObjectsArgs :
       \E varfeaturesdir \in
             IF Usable(arg) THEN FeatureDirs ELSE TrainingDirs :
          /\ arg = DictArg => bundle.status = "ok"
          /\ apcall' = [classifier |-> arg, varfeaturesdir |-> varfeaturesdir,
                        outpickle |-> "prediction.pkl",
                        maxobjects |-> maxobjects]
          /\ LET r == Resolve(arg, [kind |-> "classifier",
                                    dict |-> bundle.dict])
             IN  IF r.status # "ok"
                 THEN /\ pred' = [status |-> r.status, dict |-> NoPredDict]
                      /\ UNCHANGED <<disk, cfcall, fc>>
                 ELSE IF r.kind # "classifier"
                 THEN \* 'feature_names' not in clfdict
                      /\ pred' = [status |-> "none", dict |-> NoPredDict]
                      /\ UNCHANGED <<disk, cfcall, fc>>
                 ELSE LET c == ApplyCollectArgs(r.dict, varfeaturesdir,
                                                "prediction.pkl", maxobjects)
                          features == CollectFeatures(c)
                          clf == r.dict.best_classifier
                          X == features.dict.features_array
                          collected == [disk EXCEPT ![c.outfile] =
                                          Pickled("features", features.dict)]
                      IN  /\ cfcall' = c
                          /\ fc' = features
                          /\ IF features.status # "ok"
                             THEN /\ pred' = [status |-> "raised",
                                              dict |-> NoPredDict]
                                  /\ disk' = disk
                             ELSE IF PredictRaises(clf, X)
                             THEN /\ pred' = [status |-> "raised",
                                              dict |-> NoPredDict]
                                  /\ disk' = collected
                             ELSE LET outdict ==
                                        [features |-> features.dict,
                                         featfile |-> c.outfile,
                                         predicted_labels |-> Predict(clf, X),
                                         predicted_label_probs |->
                                            PredictProba(clf, X)]
                                  IN  /\ pred' = [status |-> "ok",
                                                  dict |-> outdict]
                                      /\ disk' =
                                           [collected EXCEPT
                                              !["prediction.pkl"] =
                                                 Pickled("prediction",
                                                         outdict)]
    /\ rfpc' = "applied"
    /\ UNCHANGED <<trcall, bundle>>

\* the first stage of the pipeline: a collection from a training directory
CollectTraining ==
    /\ rfpc = "start"
    /\ \E featuresdir \in TrainingDirs, pklglob \in Globs,
          featurestouse \in FeatureLists,
          labeldict \in {NoLabelDict, BoolLabels}, labeltype \in LabelTypes :
          CollectCall(CfArgs(featuresdir, MagCol, "collected.pkl", pklglob,
                             featurestouse, 0, labeldict, labeltype))
    /\ rfpc' = "collected"
    /\ UNCHANGED <<trcall, bundle, apcall, pred>>

(***************************************************************************)
(* initial state and specifications                                        *)
(***************************************************************************)
StampInit ==
    /\ cache = [f \in CacheFnames |-> NoFile]
    /\ pc = [p \in Procs |-> "idle"]
    /\ args = [p \in Procs |-> CHOOSE a \in StampArgs : TRUE]
    /\ provenance = [p \in Procs |-> "cache"]
    /\ fitsurls = [p \in Procs |-> <<>>]
    /\ content = [p \in Procs |-> ErrPage]
    /\ netlog = [p \in Procs |-> <<>>]
    /\ ret = [p \in Procs |-> NoRet]
    /\ populated = NoPopulated
    /\ later = [p \in Procs |-> FALSE]

RFInit ==
    /\ rfpc = "start"
    /\ disk = [path \in Paths |->
                 IF path = "corrupt.pkl" THEN Corrupt ELSE Absent]
    /\ cfcall = NoCfCall
    /\ fc = NoFc
    /\ trcall = NoTrCall
    /\ bundle = NoBundle
    /\ apcall = NoApCall
    /\ pred = NoPred

Init == StampInit /\ RFInit

\* one caller, one call at a time
Next ==
    \/ SerialCall(1) /\ UNCHANGED rfvars
    \/ QueryFails(1) /\ UNCHANGED rfvars
    \/ QueryOk(1) /\ UNCHANGED rfvars
    \/ FetchTimeout(1) /\ UNCHANGED rfvars
    \/ FetchFits(1) /\ UNCHANGED rfvars
    \/ OpenCache(1) /\ UNCHANGED rfvars
    \/ WriteCache(1) /\ UNCHANGED rfvars
    \/ OpenFrame(1) /\ UNCHANGED rfvars

Spec == Init /\ [][Next]_vars

\* two callers, their calls interleaved step by step
NextConc ==
    \/ \E p \in Procs : ConcCall(p) /\ UNCHANGED rfvars
    \/ \E p \in Procs : QueryFails(p) /\ UNCHANGED rfvars
    \/ \E p \in Procs : QueryOk(p) /\ UNCHANGED rfvars
    \/ \E p \in Procs : FetchTimeout(p) /\ UNCHANGED rfvars
    \/ \E p \in Procs : ConcFetchFits(p) /\ UNCHANGED rfvars
    \/ \E p \in Procs : OpenCache(p) /\ UNCHANGED rfvars
    \/ \E p \in Procs : WriteCache(p) /\ UNCHANGED rfvars
    \/ \E p \in Procs : OpenFrame(p) /\ UNCHANGED rfvars

SpecConc == Init /\ [][NextConc]_vars

\* the stamp cache as an earlier call for position 0 left it: that stamp is
\* cached, the other one is not
PriorCache ==
    [f \in CacheFnames |->
        IF f = <<FormPosition(0, 0), "DSS2 Red", "Linear">>
        THEN Gzipped(FitsA) ELSE NoFile]

InitPrior ==
    /\ cache = PriorCache
    /\ pc = [p \in Procs |-> "idle"]
    /\ args = [p \in Procs |-> CHOOSE a \in StampArgs : TRUE]
    /\ provenance = [p \in Procs |-> "cache"]
    /\ fitsurls = [p \in Procs |-> <<>>]
    /\ content = [p \in Procs |-> ErrPage]
    /\ netlog = [p \in Procs |-> <<>>]
    /\ ret = [p \in Procs |-> NoRet]
    /\ populated = NoPopulated
    /\ later = [p \in Procs |-> FALSE]
    /\ RFInit

\* the one call made on that cache
OnceCall(p) == ret[p] = NoRet /\ SerialCall(p)

NextOnce ==
    \/ OnceCall(1) /\ UNCHANGED rfvars
    \/ QueryFails(1) /\ UNCHANGED rfvars
    \/ QueryOk(1) /\ UNCHANGED rfvars
    \/ FetchTimeout(1) /\ UNCHANGED rfvars
    \/ FetchFits(1) /\ UNCHANGED rfvars
    \/ OpenCache(1) /\ UNCHANGED rfvars
    \/ WriteCache(1) /\ UNCHANGED rfvars
    \/ OpenFrame(1) /\ UNCHANGED rfvars

SpecOnce == InitPrior /\ [][NextOnce]_vars

\* collect_features on every directory and argument combination
NextRF == Collect /\ UNCHANGED stampvars

SpecRF == Init /\ [][NextRF]_vars

\* the pipeline: collect a training set, train on it, apply the classifier
NextCls ==
    \/ CollectTraining /\ UNCHANGED stampvars
    \/ Train /\ UNCHANGED stampvars
    \/ Apply /\ UNCHANGED stampvars

SpecCls == Init /\ [][NextCls]_vars

(***************************************************************************)
(* get_stamp: properties                                                   *)
(***************************************************************************)
Done(p) == pc[p] = "idle" /\ ret[p].kind # "pending"
GotFrame(p) == Done(p) /\ ret[p].kind \in {"frame", "frame_header"}

\* the downloads of result files the call made, in order
FitsLog(p) == SelectSeq(netlog[p], LAMBDA e : e.req = "fits")

\* the call went through every URL of a response that held at least n URLs
FetchedAll(p, n) ==
    /\ Done(p)
    /\ Len(FitsLog(p)) >= n
    /\ netlog[p][Len(netlog[p])].req = "fits"
    /\ netlog[p][Len(netlog[p])].status # "timeout"

\* C1: a call that repeats, with forcefetch=False, the parameters of the call
\* that last fetched and returned the stamp issues no network request and
\* returns what that call returned.
C1_CacheHitRepeats ==
    \A p \in Procs :
        later[p] =>
            /\ netlog[p] = <<>>
            /\ Done(p) => /\ populated.valid
                          /\ ret[p] = populated.ret

C1_Witness ==
    \E p \in Procs :
        /\ later[p]
        /\ GotFrame(p)
        /\ ret[p] = populated.ret
        /\ provenance[p] = "cache"

\* C2: a call in which a request met an HTTP error status or a timeout ends by
\* raising, and that request is the last one it made (no retry, no image).
C2_NetworkFailureRaises ==
    \A p \in Procs :
        Done(p) =>
            \A i \in 1..Len(netlog[p]) :
                netlog[p][i].status # "ok" =>
                    /\ ret[p] = Raised
                    /\ i = Len(netlog[p])

\* C3 as claimed: after a fetch through two or more URLs the cache file holds,
\* and the call returns, the content downloaded from the first URL.
C3_FirstUrlContentCached ==
    \A p \in Procs :
        FetchedAll(p, 2) =>
            LET body == FitsLog(p)[1].body
            IN  /\ cache[CacheFname(args[p])].gz = <<body>>
                /\ body.fits => ret[p] = Returned(body, args[p])

\* C3 as amended: after a fetch through two or more URLs the cache file holds,
\* and the call loads and returns, the content downloaded from the last URL.
C3_LastUrlContentCached ==
    \A p \in Procs :
        FetchedAll(p, 2) =>
            LET body == FitsLog(p)[Len(FitsLog(p))].body
            IN  /\ cache[CacheFname(args[p])].gz = <<body>>
                /\ ret[p] = IF body.fits THEN Returned(body, args[p])
                            ELSE Raised

C3_Witness ==
    \E p \in Procs :
        /\ FetchedAll(p, 2)
        /\ GotFrame(p)
        /\ FitsLog(p)[1].body # FitsLog(p)[Len(FitsLog(p))].body
        /\ FitsLog(p)[1].body.fits
        /\ cache[CacheFname(args[p])].gz = <<FitsLog(p)[Len(FitsLog(p))].body>>

\* C4: with a kernel supplied, the returned pixel array is the loaded (and
\* optionally flipped) frame convolved with the kernel, and the header comes
\* with it exactly when savewcsheader is set.
C4_ConvolvedFrameReturned ==
    \A p \in Procs :
        (GotFrame(p) /\ args[p].convolvewith # NoKernel) =>
            LET body == cache[CacheFname(args[p])].gz[1]
            IN  /\ ret[p].frame =
                     Convolve(Processed(body, args[p]), args[p].convolvewith)
                /\ ret[p].kind = IF args[p].savewcsheader
                                 THEN "frame_header" ELSE "frame"

\* the query was answered without error and its text held no FITS URL
NoUrlsFound(p) ==
    /\ pc[p] = "idle"
    /\ netlog[p] = <<NetEntry("query", "ok", ErrPage)>>

\* C5: when the query succeeds and its response holds no result-file URL, the
\* call returns None and does not raise, with or without a cache file.
C5_NoUrlsReturnsNone ==
    \A p \in Procs :
        NoUrlsFound(p) => ret[p] = RetNone

C5_Witness ==
    \E p \in Procs :
        /\ NoUrlsFound(p)
        /\ ret[p] = RetNone
        /\ args[p].forcefetch
        /\ Readable(cache[CacheFname(args[p])])

(***************************************************************************)
(* collect_features: properties                                            *)
(***************************************************************************)
\* the pickles the last collect_features call went through
Pklist == Truncate(GlobFiles(cfcall.featuresdir, cfcall.pklglob),
                   cfcall.maxobjects)
Built == fc.status = "ok"

\* every pickle of the listing holds the same features
SameFeatureSet ==
    \A i, j \in 1..Len(Pklist) : Pklist[i].feats = Pklist[j].feats

\* the features the call asks for: featurestouse, or the default list when
\* featurestouse is empty
Requested ==
    IF cfcall.featurestouse = <<>> THEN NONPERIODIC_FEATURES_TO_COLLECT
    ELSE cfcall.featurestouse

\* the requested features that the first (hence every) pickle holds, in the
\* order they were requested
RequestedAndHeld ==
    SelectSeq(Requested,
              LAMBDA f : Len(Pklist) > 0 /\ f \in Pklist[1].feats)

\* C6: in every collection built, the feature matrix has one row per entry of
\* the object-identifier list and one column per available feature name.
C6_MatrixShape ==
    Built =>
        /\ Len(fc.dict.features_array) = Len(fc.dict.objectids)
        /\ \A r \in 1..Len(fc.dict.features_array) :
              Len(fc.dict.features_array[r]) = Len(fc.dict.availablefeatures)

\* C7 as claimed: a collection built from N pickles that all hold the same
\* feature set has N rows and one column per requested feature, in the order
\* requested.
C7_RowsAndRequestedColumns ==
    (Built /\ SameFeatureSet) =>
        /\ Len(fc.dict.features_array) = Len(Pklist)
        /\ fc.dict.availablefeatures = Requested
        /\ \A r \in 1..Len(fc.dict.features_array) :
              Len(fc.dict.features_array[r]) = Len(Requested)

\* C7 as amended: from N >= 1 pickles that all hold the same feature set, one
\* of them at least requested, a collection is built with N rows and one
\* column per requested feature that the pickles hold, in the order requested;
\* row r holds the values of pickle r.
C7_RowsAndHeldColumns ==
    (fc.status # "none" /\ Len(Pklist) >= 1 /\ SameFeatureSet
        /\ RequestedAndHeld # <<>>) =>
        /\ Built
        /\ Len(fc.dict.features_array) = Len(Pklist)
        /\ fc.dict.availablefeatures = RequestedAndHeld
        /\ \A r \in 1..Len(fc.dict.features_array) :
              fc.dict.features_array[r] =
                 [j \in 1..Len(RequestedAndHeld) |->
                     Varf(Pklist, r).thisfeatures[RequestedAndHeld[j]]]

C7_Witness ==
    /\ Built
    /\ Len(Pklist) >= 2
    /\ SameFeatureSet
    /\ cfcall.featurestouse = <<"stetsonk", "stetsonj">>
    /\ fc.dict.availablefeatures = <<"stetsonk", "stetsonj">>
    /\ Len(fc.dict.features_array) = Len(Pklist)

\* C8: with a label map supplied, the label vector has one entry per object
\* identifier, aligned by index: in binary mode 1 for a truthy map value and 0
\* otherwise, in class mode the map's class code, and 0 for an object absent
\* from the map.
C8_LabelVector ==
    (Built /\ cfcall.labeldict.isdict) =>
        /\ fc.dict.haslabels
        /\ Len(fc.dict.labels_array) = Len(fc.dict.objectids)
        /\ \A i \in 1..Len(fc.dict.objectids) :
              LET o == fc.dict.objectids[i]
                  inmap == o \in cfcall.labeldict.keys
                  code == cfcall.labeldict.val[o]
              IN  /\ cfcall.labeltype = "binary" =>
                        /\ fc.dict.labels_array[i] \in {0, 1}
                        /\ fc.dict.labels_array[i] = 1 <=> (inmap /\ code # 0)
                  /\ cfcall.labeltype = "classes" =>
                        fc.dict.labels_array[i] = IF inmap THEN code ELSE 0

C8_Witness ==
    /\ Built
    /\ cfcall.labeldict = ClassLabels
    /\ cfcall.labeltype = "binary"
    /\ fc.dict.objectids = <<"obj2", "obj1">>
    /\ fc.dict.labels_array = <<0, 1>>

(***************************************************************************)
(* train_rf_classifier and apply_rf_classifier: properties                 *)
(***************************************************************************)
Trained == bundle.status # "pending"
Applied == pred.status # "pending"

\* the pickles the last apply_rf_classifier call had to collect from
ApplyListing ==
    Truncate(GlobFiles(apcall.varfeaturesdir,
                       bundle.dict.collect_kwargs.pklglob),
             apcall.maxobjects)

\* C9: applying a valid bundle to a directory where the bundle's glob matches
\* no file completes and returns a prediction result over zero objects.
C9_EmptyGlobApplies ==
    (Applied /\ Usable(apcall.classifier) /\ ApplyListing = <<>>) =>
        /\ pred.status = "ok"
        /\ Len(pred.dict.features.objectids) = 0

\* the argument is a value of a wrong type or names a file that is missing
NotResolvable(arg) ==
    \/ arg.type = "other"
    \/ arg.type = "str" /\ ~disk[arg.path].exists

\* the argument names a file whose content cannot be loaded
NotLoadable(arg) == arg.type = "str" /\ disk[arg.path] = Corrupt

TrainWroteNothing == disk["classifier.pkl"] = Absent
ApplyWroteNothing ==
    /\ disk["prediction.pkl"] = Absent
    /\ disk["actual-collected-features.pkl"] = Absent

\* C10 as claimed: an input that is neither a loadable path nor a dict (wrong
\* type, missing file, unloadable content) makes train_rf_classifier and
\* apply_rf_classifier return None without raising and without writing.
C10_UnloadableReturnsNone ==
    /\ (Trained /\ (\/ NotResolvable(trcall.collected_features)
                    \/ NotLoadable(trcall.collected_features))) =>
          (bundle.status = "none" /\ TrainWroteNothing)
    /\ (Applied /\ (\/ NotResolvable(apcall.classifier)
                    \/ NotLoadable(apcall.classifier))) =>
          (pred.status = "none" /\ ApplyWroteNothing)

\* C10 as amended: a wrong type or a missing file makes both functions return
\* None without raising; an existing file whose content cannot be loaded makes
\* them raise; neither case writes an output file.
C10_UnresolvableReturnsNone ==
    /\ (Trained /\ NotResolvable(trcall.collected_features)) =>
          (bundle.status = "none" /\ TrainWroteNothing)
    /\ (Trained /\ NotLoadable(trcall.collected_features)) =>
          (bundle.status = "raised" /\ TrainWroteNothing)
    /\ (Applied /\ NotResolvable(apcall.classifier)) =>
          (pred.status = "none" /\ ApplyWroteNothing)
    /\ (Applied /\ NotLoadable(apcall.classifier)) =>
          (pred.status = "raised" /\ ApplyWroteNothing)

C10_Witness ==
    /\ trcall.collected_features = PathArg("missing.pkl")
    /\ trcall.classifier_to_pickle = "classifier.pkl"
    /\ bundle.status = "none"
    /\ apcall.classifier = OtherArg
    /\ pred.status = "none"
    /\ TrainWroteNothing
    /\ ApplyWroteNothing

\* C11: the collect_features call that apply_rf_classifier makes is given the
\* file glob, the feature-name list and the label type stored in the bundle,
\* and the new collection records them in its kwargs.
C11_OriginalCollectParameters ==
    (Applied /\ Usable(apcall.classifier)) =>
        /\ cfcall.pklglob = bundle.dict.collect_kwargs.pklglob
        /\ cfcall.featurestouse = bundle.dict.feature_names
        /\ cfcall.labeltype = bundle.dict.collect_kwargs.labeltype
        /\ fc.status = "ok" =>
              /\ fc.dict.kwargs.pklglob = bundle.dict.collect_kwargs.pklglob
              /\ fc.dict.kwargs.featurestouse = bundle.dict.feature_names
              /\ fc.dict.kwargs.labeltype =
                    bundle.dict.collect_kwargs.labeltype

\* row r of the matrix holds, column by column, the values read from pickle i
RowReadFrom(r, i) ==
    \A j \in 1..Len(fc.dict.availablefeatures) :
        LET f == fc.dict.availablefeatures[j]
        IN  /\ f \in Pklist[i].feats
            /\ fc.dict.features_array[r][j] = Varf(Pklist, i).thisfeatures[f]

\* C12: in every collection built, row r of the feature matrix holds the
\* values read from the record of the r-th object identifier, and no row
\* mixes values of different objects.
C12_RowsBelongToObjects ==
    Built =>
        \A r \in 1..Len(fc.dict.features_array) :
            /\ r <= Len(fc.dict.objectids)
            /\ \E i \in 1..Len(Pklist) :
                  /\ Pklist[i].objectid = fc.dict.objectids[r]
                  /\ RowReadFrom(r, i)

\* the last apply_rf_classifier call collected a matrix and handed it to the
\* bundle's classifier
MatrixPassed == Applied /\ Usable(apcall.classifier) /\ fc.status = "ok"

\* C13: the matrix apply_rf_classifier passes to the bundle's classifier has
\* exactly the columns of the bundle's feature-name list, in the same order,
\* whatever the new directory holds.
C13_TrainingColumnsPassed ==
    MatrixPassed =>
        /\ fc.dict.availablefeatures = bundle.dict.feature_names
        /\ \A r \in 1..Len(fc.dict.features_array) :
              Len(fc.dict.features_array[r]) = Len(bundle.dict.feature_names)

(***************************************************************************)
(* get_stamp: concurrent calls and failed calls                            *)
(***************************************************************************)
\* every request caller p made was answered with status 200
AllAnswered(p) == \A i \in 1..Len(netlog[p]) : netlog[p][i].status = "ok"

\* C14: concurrent calls for the same key are neither de-duplicated nor
\* serialized: whether a call fetches depends only on forcefetch and on the
\* cache file existing when the call starts, never on another call being in
\* progress, and every call that fetches issues its own query; a call can load
\* the cache file while another call has opened it for writing and has not
\* written its content yet (the witness).
C14_NoDeduplication ==
    /\ [](\A p \in Procs :
            (provenance[p] = "new download" /\ pc[p] # "query") =>
                /\ netlog[p] # <<>>
                /\ netlog[p][1].req = "query")
    /\ [][\A p \in Procs :
            (pc[p] = "idle" /\ pc'[p] # "idle") =>
                (pc'[p] = "query" <=>
                    \/ args'[p].forcefetch
                    \/ ~cache[CacheFname(args'[p])].exists)]_vars

C14_Witness ==
    \E p, q \in Procs :
        /\ p # q
        /\ CacheFname(args[p]) = CacheFname(args[q])
        /\ provenance[p] = "new download" /\ provenance[q] = "new download"
        /\ FitsLog(p) # <<>> /\ FitsLog(q) # <<>>
        /\ AllAnswered(p) /\ AllAnswered(q)
        /\ pc[q] = "write"
        /\ cache[CacheFname(args[q])] = Truncated
        /\ Done(p)
        /\ ret[p] = Raised

\* the downloads of caller p that were answered, hence written to the cache
Answered(p) == SelectSeq(FitsLog(p), LAMBDA e : e.status # "timeout")

\* C15: a call that ends by raising leaves its cache file as it was before the
\* call, and every cache file that exists then holds the body of a download
\* answered with a non-error status.
C15_RaiseLeavesCacheAsBefore ==
    (Done(1) /\ ret[1] = Raised) =>
        /\ cache[CacheFname(args[1])] = PriorCache[CacheFname(args[1])]
        /\ \A f \in CacheFnames :
              cache[f].exists =>
                 \/ cache[f] = PriorCache[f]
                 \/ \E i \in 1..Len(Answered(1)) :
                       /\ Answered(1)[i].status = "ok"
                       /\ cache[f] = Gzipped(Answered(1)[i].body)

====
